---- MODULE Spec2Model ----
(***************************************************************************)
(* Leica SCN reader (openslide-vendor-leica.c): leica_open, the manifest   *)
(* parser parse_xml_description and the level synthesizer                  *)
(* create_levels_from_collection, as a state machine over one open call.   *)
(*                                                                         *)
(* Modelling conventions                                                   *)
(*  - An absent optional string (a NULL pointer) is the string NULL.       *)
(*  - A double clicks_per_pixel is the exact fraction [n, d] with d > 0;   *)
(*    the manifests enumerated below keep every quotient far from a        *)
(*    rounding boundary, so the exact comparison, minimum and ceiling      *)
(*    agree with the double ones.                                          *)
(*  - Calls into the TIFF collaborator succeed or fail nondeterministically.*)
(*  - Sizes (sizeX, sizeY of collection, view and dimension) are positive; *)
(*    offsets and ifd values range over negative and out-of-range values   *)
(*    as well; every image keeps at least one z-plane-0 dimension.         *)
(*  - A manifest carries at most one defect: one attribute that is not an  *)
(*    integer, one image without a view element, or one image without any  *)
(*    dimension element. The parser stops at the first defect it meets, so *)
(*    a second one would never be read.                                    *)
(*  - The heap is a ledger: per kind of object, how many were allocated    *)
(*    and how many were freed since leica_open was entered.                *)
(*  - paint_region and read_tile run under a second specification,         *)
(*    PaintSpec, that starts from a reader opened on a two-area slide.     *)
(*    Each thread makes one call on the base level at a time; a region     *)
(*    meets at most one tile of an area. The handle pool, the tile cache   *)
(*    and the grid are collaborators: the pool hands out the smallest free *)
(*    handle, the cache counts references per entry and frees an entry     *)
(*    that is neither retained under its key nor referenced.               *)
(***************************************************************************)
EXTENDS Integers, Sequences, FiniteSets

\* ---------------------------------------------------------------- bounds

\* most images in one collection
MaxImages == 3
\* most pyramid dimensions of one image
MaxDims == 2
\* most threads that call paint_region on the opened reader
MaxPainters == 2

\* ------------------------------------------------------------- constants

NULL == "NULL"
LEICA_VALUE_BRIGHTFIELD == "brightfield"

\* ------------------------------------------------- manifests (the input)

\* 2 to the power k
RECURSIVE Pow2(_)
Pow2(k) == IF k = 0 THEN 1 ELSE 2 * Pow2(k - 1)

\* One <dimension> element.
DimensionNode(ifd, sizeX, sizeY, z) ==
  [ifd |-> ifd, sizeX |-> sizeX, sizeY |-> sizeY, z |-> z]

\* A pyramid of n dimensions, widest first, directories base, base+1, ...
Pyramid(n, base) ==
  [k \in 1..n |-> DimensionNode(base + k - 1, Pow2(n - k), Pow2(n - k), NULL)]

\* The same pyramid listed narrowest first (the parser has to sort it).
Reversed(s) == [k \in 1..Len(s) |-> s[Len(s) + 1 - k]]

\* The pyramid with the ifd of its narrowest dimension replaced.
WithLastIfd(s, ifd) == [s EXCEPT ![Len(s)].ifd = ifd]

\* The pyramid preceded by a wide dimension of z-plane 1 and with z="0"
\* spelled out on its first dimension.
WithZPlane(s) ==
  <<DimensionNode(99, 64, 64, "1")>> \o [s EXCEPT ![1].z = "0"]

ImageNode(src, objective, sizeX, sizeY, offsetX, offsetY, dimensions) ==
  [illumination_source |-> src, objective |-> objective,
   sizeX |-> sizeX, sizeY |-> sizeY,
   offsetX |-> offsetX, offsetY |-> offsetY,
   dimensions |-> dimensions]

\* The canvas of the enumerated collections, in clicks.
Canvas == [sizeX |-> 400, sizeY |-> 200]

\* Main images at offset (0,0), 200 clicks across, brightfield, objective 20:
\* the shallowest and the deepest pyramid, the deepest one listed narrowest
\* first with a z-plane-1 dimension in front, and the deepest one whose
\* narrowest dimension names ifd -1.
MainImagesByPyramid ==
  {ImageNode(LEICA_VALUE_BRIGHTFIELD, "20", 200, 200, 0, 0, d) :
     d \in {Pyramid(1, 1),
            Pyramid(MaxDims, 1),
            WithZPlane(Reversed(Pyramid(MaxDims, 1))),
            WithLastIfd(Pyramid(MaxDims, 1), -1)}}

\* Main images that differ from the first family in illumination source or
\* objective (either may be absent).
MainImagesByScanSettings ==
  {ImageNode(src, "20", 200, 200, 0, 0, Pyramid(MaxDims, 1)) :
     src \in {"fluorescence", NULL}}
  \cup
  {ImageNode(LEICA_VALUE_BRIGHTFIELD, obj, 200, 200, 0, 0, Pyramid(MaxDims, 1)) :
     obj \in {"40", NULL}}

\* Main images that differ in their view <<sizeX, offsetX, offsetY>>: a
\* second acquisition beside the first with a slightly finer resolution,
\* one with half the clicks, and one whose offsets lie left of and below
\* the canvas.
MainImagesByView ==
  {ImageNode(LEICA_VALUE_BRIGHTFIELD, "20", v[1], 200, v[2], v[3],
             Pyramid(MaxDims, 11)) :
     v \in {<<198, 200, 0>>, <<100, 0, 100>>, <<200, -1, 200>>}}

\* Macro images: the view covers the canvas exactly. One brightfield macro
\* names a negative ifd on its narrowest dimension.
MacroImages ==
  {ImageNode(LEICA_VALUE_BRIGHTFIELD, "20", Canvas.sizeX, Canvas.sizeY, 0, 0, d) :
     d \in {Pyramid(MaxDims, 21), WithLastIfd(Pyramid(MaxDims, 31), -5)}}
  \cup
  {ImageNode("fluorescence", "20", Canvas.sizeX, Canvas.sizeY, 0, 0,
             Pyramid(MaxDims, 41))}

ImageNodes ==
  MainImagesByPyramid \cup MainImagesByScanSettings \cup MainImagesByView
    \cup MacroImages

\* Sequences of at most n elements of S.
SeqUpTo(S, n) == UNION {[1..k -> S] : k \in 0..n}

\* Where a manifest is defective: image 0 is the collection element itself,
\* dimension 0 the view of the image. what is the name of the attribute that
\* is not an integer, "view" for an image without a view element,
\* "dimensions" for an image without dimension elements, "none" for a
\* manifest without defect.
Defect(image, dimension, what) ==
  [image |-> image, dimension |-> dimension, what |-> what]

NoDefect == Defect(0, 0, "none")

CollectionNode(sizeX, sizeY, images) ==
  [hasCollection |-> TRUE, sizeX |-> sizeX, sizeY |-> sizeY, images |-> images,
   defect |-> NoDefect]

\* A document without a /scn/collection element.
NoCollectionDocument ==
  [hasCollection |-> FALSE, sizeX |-> 1, sizeY |-> 1, images |-> <<>>,
   defect |-> NoDefect]

\* End-to-end scenario 1 of the specification: one brightfield image whose
\* view is the whole 100000x80000 collection.
Scenario1Document ==
  CollectionNode(100000, 80000,
    <<ImageNode(LEICA_VALUE_BRIGHTFIELD, "20", 100000, 80000, 0, 0,
                <<DimensionNode(1, 1000, 800, NULL),
                  DimensionNode(2, 500, 400, NULL)>>)>>)

\* Every place of a document where one defect can sit.
DefectsOf(doc) ==
  {Defect(0, 0, what) : what \in {"sizeX", "sizeY"}}
  \cup
  {Defect(i, 0, what) :
     i \in 1..Len(doc.images),
     what \in {"view", "sizeX", "sizeY", "offsetX", "offsetY", "dimensions"}}
  \cup
  UNION {{Defect(i, k, what) :
            k \in 1..Len(doc.images[i].dimensions),
            what \in {"ifd", "sizeX", "sizeY"}} :
         i \in 1..Len(doc.images)}

\* The defective manifests: collections of a main image (whose first
\* dimension element is of z-plane 1) and of a macro image, with one defect.
DefectiveDocuments ==
  LET main  == ImageNode(LEICA_VALUE_BRIGHTFIELD, "20", 200, 200, 0, 0,
                         WithZPlane(Reversed(Pyramid(MaxDims, 1))))
      macro == ImageNode(LEICA_VALUE_BRIGHTFIELD, "20",
                         Canvas.sizeX, Canvas.sizeY, 0, 0,
                         Pyramid(MaxDims, 21))
      docs  == {CollectionNode(Canvas.sizeX, Canvas.sizeY, imgs) :
                  imgs \in SeqUpTo({main, macro}, MaxImages)}
  IN UNION {{[doc EXCEPT !.defect = d] : d \in DefectsOf(doc)} : doc \in docs}

Documents ==
  {CollectionNode(Canvas.sizeX, Canvas.sizeY, imgs) :
     imgs \in SeqUpTo(ImageNodes, MaxImages)}
  \cup {NoCollectionDocument, Scenario1Document}
  \cup DefectiveDocuments

\* What leica_open is handed: a TIFF and the text of its ImageDescription.
\* containsNS: the text contains the Leica namespace URI; wellFormed: the
\* text parses as XML; defaultNS: the document's default namespace is that
\* URI (which then occurs in the text).
TiffFile(tiled, hasDesc, containsNS, wellFormed, defaultNS, doc) ==
  [tiled |-> tiled, hasDesc |-> hasDesc, containsNS |-> containsNS,
   wellFormed |-> wellFormed, defaultNS |-> defaultNS, doc |-> doc]

TiffFiles ==
  {TiffFile(TRUE, TRUE, TRUE, TRUE, TRUE, doc) : doc \in Documents}
  \cup
  {TiffFile(t, h, c, w, c /\ w /\ n, NoCollectionDocument) :
     t \in BOOLEAN, h \in BOOLEAN, c \in BOOLEAN, w \in BOOLEAN, n \in BOOLEAN}

\* ------------------------------------------------------ manifest parser

\* clicks_per_pixel = (double) image->clicks_across / dimension->width,
\* kept as the fraction n/d.
ClicksPerPixel(clicks_across, width) == [n |-> clicks_across, d |-> width]

\* a < b on clicks_per_pixel values (denominators are positive)
CppLess(a, b) == a.n * b.d < b.n * a.d

\* a = b as numbers
CppEqual(a, b) == a.n * b.d = b.n * a.d

\* "accept only dimensions from z-plane 0": skipped iff z is present and
\* differs from "0".
IsZPlane0(node) == ~(node.z # NULL /\ node.z # "0")

\* One struct dimension from a <dimension> element of an image that is
\* clicks_across clicks wide.
ParseDimension(node, clicks_across) ==
  [dir |-> node.ifd, width |-> node.sizeX, height |-> node.sizeY,
   clicks_per_pixel |-> ClicksPerPixel(clicks_across, node.sizeX)]

\* dimension_compare: -1 when a is wider, 0 on equal widths, 1 otherwise.
DimensionCompareAscending(da, db) ==
  IF da.width < db.width THEN -1 ELSE IF da.width = db.width THEN 0 ELSE 1

DimensionCompare(da, db) ==
  IF da.width > db.width THEN -1 ELSE IF da.width = db.width THEN 0 ELSE 1

\* g_ptr_array_sort(image->dimensions, dimension_compare), as a stable
\* insertion sort: x goes behind every element that does not compare
\* greater than it.
InsertDimension(sorted, x) ==
  LET k == Cardinality({i \in 1..Len(sorted) :
                          DimensionCompare(sorted[i], x) <= 0})
  IN SubSeq(sorted, 1, k) \o <<x>> \o SubSeq(sorted, k + 1, Len(sorted))

RECURSIVE SortDimensions(_)
SortDimensions(s) ==
  IF s = <<>> THEN <<>>
  ELSE InsertDimension(SortDimensions(SubSeq(s, 1, Len(s) - 1)), s[Len(s)])

\* image->is_macro, with the fields of the collection swapped
IsMacroSwapped(offset_x, offset_y, across, down, coll_across, coll_down) ==
  offset_x = 0 /\ offset_y = 0 /\ across = coll_down /\ down = coll_across

\* image->is_macro
IsMacro(offset_x, offset_y, across, down, coll_across, coll_down) ==
  offset_x = 0 /\ offset_y = 0 /\ across = coll_across /\ down = coll_down

\* One struct image from an <image> element.
ParseImage(node, coll_across, coll_down) ==
  [illumination_source |-> node.illumination_source,
   objective |-> node.objective,
   is_macro |-> IsMacro(node.offsetX, node.offsetY, node.sizeX, node.sizeY,
                        coll_across, coll_down),
   clicks_across |-> node.sizeX, clicks_down |-> node.sizeY,
   clicks_offset_x |-> node.offsetX, clicks_offset_y |-> node.offsetY,
   dimensions |->
     LET kept == SelectSeq(node.dimensions, IsZPlane0)
     IN SortDimensions([k \in 1..Len(kept) |->
                          ParseDimension(kept[k], node.sizeX)])]

\* The struct collection of a document that has a collection element.
ParseCollection(doc) ==
  [clicks_across |-> doc.sizeX, clicks_down |-> doc.sizeY,
   images |-> [i \in 1..Len(doc.images) |->
                 ParseImage(doc.images[i], doc.sizeX, doc.sizeY)]]

NoCollection == [clicks_across |-> 0, clicks_down |-> 0, images |-> <<>>]

Outcome(kind, msg, collection) ==
  [kind |-> kind, msg |-> msg, collection |-> collection]

\* The defect of the document is one the parser reads: a defective
\* attribute of a dimension element of another z-plane is skipped with the
\* element.
DefectMet(doc) ==
  /\ doc.defect.what # "none"
  /\ doc.defect.dimension > 0 =>
       IsZPlane0(doc.images[doc.defect.image].dimensions[doc.defect.dimension])

\* The message of the error the defect raises; for an attribute it is that
\* of PARSE_INT_ATTRIBUTE_OR_FAIL.
DefectMessage(defect) ==
  CASE defect.what = "view" -> "Can't find view node"
    [] defect.what = "dimensions" -> "Can't find any dimensions in image"
    [] OTHER -> "Invalid integer attribute"

\* parse_xml_description: the collection, or the error it sets.
ParseXmlDescription(t) ==
  IF ~t.wellFormed
    THEN Outcome("FormatNotSupported", "XML parse error", NoCollection)
  ELSE IF ~t.defaultNS
    THEN Outcome("FormatNotSupported", "Unexpected XML namespace", NoCollection)
  ELSE IF ~t.doc.hasCollection
    THEN Outcome("BadData", "Can't find collection element", NoCollection)
  ELSE IF DefectMet(t.doc) /\ t.doc.defect.image = 0
    THEN Outcome("BadData", DefectMessage(t.doc.defect), NoCollection)
  ELSE IF Len(t.doc.images) = 0
    THEN Outcome("BadData", "Can't find any images", NoCollection)
  ELSE IF DefectMet(t.doc)
    THEN Outcome("BadData", DefectMessage(t.doc.defect), NoCollection)
  ELSE Outcome("ok", "", ParseCollection(t.doc))

\* ----------------------------------------------------- level synthesizer

\* "we only support brightfield": the image is kept iff its illumination
\* source is present and equals "brightfield".
IsBrightfield(image) ==
  ~(image.illumination_source = NULL
    \/ image.illumination_source # LEICA_VALUE_BRIGHTFIELD)

\* The loop of should_use_legacy_quickhash from image image_num on.
RECURSIVE LegacyScan(_, _, _, _)
LegacyScan(images, image_num, brightfield_main_images, macro_images) ==
  IF image_num > Len(images)
    THEN brightfield_main_images = 1 /\ macro_images <= 1
  ELSE IF images[image_num].is_macro
    THEN LegacyScan(images, image_num + 1, brightfield_main_images,
                    macro_images + 1)
  ELSE IF ~IsBrightfield(images[image_num])
    THEN FALSE
  ELSE LegacyScan(images, image_num + 1, brightfield_main_images + 1,
                  macro_images)

\* should_use_legacy_quickhash skipping, not rejecting, other main images
ShouldUseLegacyQuickhashSkipping(collection) ==
  /\ Cardinality({i \in 1..Len(collection.images) :
                    ~collection.images[i].is_macro
                    /\ IsBrightfield(collection.images[i])}) = 1
  /\ Cardinality({i \in 1..Len(collection.images) :
                    collection.images[i].is_macro}) <= 1

ShouldUseLegacyQuickhash(collection) == LegacyScan(collection.images, 1, 0, 0)

\* MIN(l->clicks_per_pixel, dimension->clicks_per_pixel) left out
MinClicksPerPixelKept(a, b) == a

\* MIN(a, b) of glib: (a < b) ? a : b
MinClicksPerPixel(a, b) == IF CppLess(a, b) THEN a ELSE b

\* resolution_similarity >= 0.98, where resolution_similarity is
\* 1 - fabs(d - f) / f  for a positive f.
ResolutionSimilar(d, f) ==
  LET diff == d.n * f.d - f.n * d.d
      abs  == IF diff < 0 THEN -diff ELSE diff
  IN  50 * abs <= f.n * d.d

\* ceil(a / b) for b > 0
CeilDiv(a, b) == -((-a) \div b)

\* ceil(clicks / clicks_per_pixel)
LevelSize(clicks, cpp) == CeilDiv(clicks * cpp.d, cpp.n)

\* The quickhash directory after a brightfield macro image, set whatever
\* the quickhash mode
MacroQuickhashDirAlways(legacy_quickhash, quickhash_dir, image) ==
  image.dimensions[Len(image.dimensions)].dir

\* The quickhash directory after a brightfield macro image: its smallest
\* dimension unless the mode is legacy.
MacroQuickhashDir(legacy_quickhash, quickhash_dir, image) ==
  IF ~legacy_quickhash
    THEN image.dimensions[Len(image.dimensions)].dir
    ELSE quickhash_dir

\* "Found multiple macro images", never reported
MultipleMacroImagesIgnored(have_macro_image) == FALSE

\* "Found multiple macro images": a brightfield macro after another one.
MultipleMacroImages(have_macro_image) == have_macro_image

\* The recognition gate of leica_open without the namespace test
GateErrorNoNamespaceTest(t) ==
  IF ~t.tiled THEN "TIFF is not tiled"
  ELSE IF ~t.hasDesc THEN "Not a Leica slide"
  ELSE ""

\* The recognition gate of leica_open: the message of the
\* FormatNotSupported error it raises, "" when the file passes.
GateError(t) ==
  IF ~t.tiled THEN "TIFF is not tiled"
  ELSE IF ~t.hasDesc \/ ~t.containsNS THEN "Not a Leica slide"
  ELSE ""

\* The outcomes of strcmp(a, b): zero or nonzero on two strings; on a NULL
\* argument the call is undefined and may also end the process.
StrcmpOutcomes(a, b) ==
  IF a = NULL \/ b = NULL THEN {"crash", "zero", "nonzero"}
  ELSE IF a = b THEN {"zero"}
  ELSE {"nonzero"}

\* g_slice_new0(struct level) with its clicks_per_pixel set
NewLevel(cpp) ==
  [clicks_per_pixel |-> cpp, base_w |-> 0, base_h |-> 0, areas |-> <<>>]

\* g_slice_new0(struct area): the directory of tiffl, whether a grid was
\* created, and the offsets, all zero
NewArea == [dir |-> 0, grid |-> FALSE, clicks_offset_x |-> 0, clicks_offset_y |-> 0]

\* _openslide_tiff_level_init(tiff, dimension->dir, NULL, tiffl, err) on
\* success: tiffl describes the directory asked for.
TiffLevelInit(area, dir) == [area EXCEPT !.dir = dir]

\* "set area offset"
SetAreaOffsetSwapped(area, image) ==
  [area EXCEPT !.clicks_offset_x = image.clicks_offset_y,
               !.clicks_offset_y = image.clicks_offset_x]

SetAreaOffset(area, image) ==
  [area EXCEPT !.clicks_offset_x = image.clicks_offset_x,
               !.clicks_offset_y = image.clicks_offset_y]

\* The quickhash directory after a main image: the last dimension of the
\* first main image in legacy mode.
LegacyQuickhashDir(legacy_quickhash, is_first, quickhash_dir, image) ==
  IF legacy_quickhash /\ is_first
    THEN image.dimensions[Len(image.dimensions)].dir
    ELSE quickhash_dir

\* "now we have minimized click densities; set level sizes"
SetLevelSizes(lv, collection) ==
  [k \in 1..Len(lv) |->
     [lv[k] EXCEPT
        !.base_w = LevelSize(collection.clicks_across, lv[k].clicks_per_pixel),
        !.base_h = LevelSize(collection.clicks_down, lv[k].clicks_per_pixel)]]

\* g_hash_table_insert into the associated images: an entry of the same
\* name is replaced.
AddAssociatedImage(images, name, dir) ==
  {a \in images : a.name # name} \cup {[name |-> name, dir |-> dir]}

\* The reader before open stored anything: g_assert(osr->data == NULL),
\* g_assert(osr->levels == NULL).
UnsetReader ==
  [levels |-> <<>>, level_count |-> 0, data |-> FALSE, ops |-> NULL]

\* The reader's fields when leica_open returns after a successful synthesis.
\* step names how far the tail of leica_open got: "hash" when
\* _openslide_tiff_init_properties_and_hash failed, "directory" when
\* TIFFSetDirectory failed, "ok" when neither did. Both failures return
\* before the four stores into osr.
StoreReaderAlways(reader, step, level_array) ==
  [levels |-> level_array, level_count |-> Len(level_array),
   data |-> TRUE, ops |-> "leica_ops"]

StoreReader(reader, step, level_array) ==
  IF step = "ok"
    THEN [levels |-> level_array, level_count |-> Len(level_array),
          data |-> TRUE, ops |-> "leica_ops"]
    ELSE reader

\* ------------------------------------------------------------- the heap

\* The kinds of object leica_open and its callees allocate: the structs
\* collection, image, dimension, level, area and leica_ops_data, the
\* GPtrArray level_array, the GPtrArray areas of a level, and the grid of an
\* area.
HeapKinds ==
  {"collection", "image", "dimension", "level_array", "level", "areas",
   "area", "grid", "data"}

\* Nothing allocated yet. null_grid_destroys counts the calls of
\* _openslide_grid_destroy on an area whose grid is still NULL.
EmptyHeap ==
  [allocated |-> [k \in HeapKinds |-> 0],
   freed |-> [k \in HeapKinds |-> 0],
   null_grid_destroys |-> 0]

\* g_slice_new0 / g_ptr_array_new / _openslide_grid_create_simple, n times.
Allocate(heap, kind, n) == [heap EXCEPT !.allocated[kind] = @ + n]

\* g_slice_free / g_ptr_array_free(, true) / g_free, n times.
Release(heap, kind, n) == [heap EXCEPT !.freed[kind] = @ + n]

\* The struct dimensions reachable from the first n images of a collection.
RECURSIVE DimensionsOfImages(_, _)
DimensionsOfImages(images, n) ==
  IF n = 0 THEN 0
  ELSE Len(images[n].dimensions) + DimensionsOfImages(images, n - 1)

\* collection_free: every dimension of every image in collection->images,
\* those images, and the collection.
CollectionFree(heap, collection) ==
  Release(
    Release(
      Release(heap, "dimension",
              DimensionsOfImages(collection.images, Len(collection.images))),
      "image", Len(collection.images)),
    "collection", 1)

\* The heap when parse_xml_description returns. On success the collection
\* with its images and dimensions is live. On a failure after the
\* collection was created, the FAIL label calls collection_free on what
\* collection->images holds: the images before the defective one. The
\* defective image itself was allocated unless its view is missing, and so
\* were its z-plane-0 dimensions up to the defective one; neither has been
\* added to its array.
ParseXmlHeap(heap, t) ==
  LET doc      == t.doc
      defect   == doc.defect
      whole    == ParseCollection(doc)
      appended == [whole EXCEPT !.images = SubSeq(@, 1, defect.image - 1)]
      current  == IF defect.dimension = 0 THEN 0
                  ELSE Len(SelectSeq(SubSeq(doc.images[defect.image].dimensions,
                                            1, defect.dimension),
                                     IsZPlane0))
      Created(images, dimensions) ==
        Allocate(Allocate(Allocate(heap, "collection", 1), "image", images),
                 "dimension", dimensions)
  IN IF ~t.wellFormed \/ ~t.defaultNS \/ ~doc.hasCollection
       THEN heap
     ELSE IF (DefectMet(doc) /\ defect.image = 0) \/ Len(doc.images) = 0
       THEN CollectionFree(Created(0, 0), [whole EXCEPT !.images = <<>>])
     ELSE IF DefectMet(doc)
       THEN CollectionFree(
              Created(IF defect.what = "view" THEN defect.image - 1
                                              ELSE defect.image,
                      DimensionsOfImages(appended.images, Len(appended.images))
                        + current),
              appended)
     ELSE Created(Len(whole.images),
                  DimensionsOfImages(whole.images, Len(whole.images)))

\* One iteration of the dimension loop: the level and its areas array for
\* the first main image, then (unless the resolutions are inconsistent) the
\* area, and the grid when the iteration reaches its end.
DimensionHeap(heap, is_first, similar, grid_created) ==
  LET h1 == IF is_first
              THEN Allocate(Allocate(heap, "level", 1), "areas", 1)
              ELSE heap
      h2 == IF similar THEN Allocate(h1, "area", 1) ELSE h1
  IN IF similar /\ grid_created THEN Allocate(h2, "grid", 1) ELSE h2

\* destroy_level: for every area _openslide_grid_destroy(area->grid) and
\* the area freed, then the level freed.
DestroyLevel(heap, l) ==
  LET created == Cardinality({n \in 1..Len(l.areas) : l.areas[n].grid})
      h1 == [Release(heap, "grid", created) EXCEPT
               !.null_grid_destroys = @ + Len(l.areas) - created]
  IN Release(Release(h1, "area", Len(l.areas)), "level", 1)

\* destroy_level on levels 1..n of the array.
RECURSIVE DestroyLevels(_, _, _)
DestroyLevels(heap, level_array, n) ==
  IF n = 0 THEN heap
  ELSE DestroyLevel(DestroyLevels(heap, level_array, n - 1), level_array[n])

\* The FAIL label of leica_open: every level destroyed, the array freed.
FailLabel(heap, level_array) ==
  Release(DestroyLevels(heap, level_array, Len(level_array)), "level_array", 1)

\* destroy_data: the private data freed, every level destroyed, the
\* unwrapped array freed.
DestroyData(heap, level_array) ==
  Release(DestroyLevels(Release(heap, "data", 1), level_array,
                        Len(level_array)),
          "level_array", 1)

\* -------------------------------------------------------- the properties

\* set_prop: nothing for a NULL value, else the property is (re)placed.
SetProp(properties, name, value) ==
  IF value = NULL THEN properties
  ELSE {q \in properties : q.name # name}
         \cup {[name |-> name, value |-> value]}

\* g_hash_table_remove(osr->properties, name)
RemoveProp(properties, name) == {q \in properties : q.name # name}

\* _openslide_duplicate_int_prop: the integer property src, when present,
\* copied under the name dest.
DuplicateIntProp(properties, src, dest) ==
  properties \cup
    {[name |-> dest, value |-> q.value] : q \in {r \in properties : r.name = src}}

\* The properties of the first main image.
FirstMainImageProps(properties, image) ==
  DuplicateIntProp(
    SetProp(SetProp(properties, "leica.illumination-source",
                    image.illumination_source),
            "leica.objective", image.objective),
    "leica.objective", "openslide.objective-power")

\* _openslide_tiff_init_properties_and_hash on success: the quickhash and
\* the TIFF tags of the property directory, the XML document among them.
TiffInitPropertiesAndHash(properties) ==
  SetProp(SetProp(SetProp(properties, "openslide.quickhash-1", "hash"),
                  "openslide.comment", "xml"),
          "tiff.ImageDescription", "xml")

\* The properties when leica_open returns after a successful synthesis:
\* untouched when the hash failed, else seeded and with the XML document
\* removed again, and with the two MPP properties when the property
\* directory was selected and has a resolution in centimeters.
FinishProps(properties, step, has_resolution) ==
  LET seeded == RemoveProp(RemoveProp(TiffInitPropertiesAndHash(properties),
                                      "openslide.comment"),
                           "tiff.ImageDescription")
  IN IF step = "hash" THEN properties
     ELSE IF step = "ok" /\ has_resolution
       THEN SetProp(SetProp(seeded, "openslide.mpp-x", "mpp"),
                    "openslide.mpp-y", "mpp")
     ELSE seeded

\* ------------------------------------------------------------------ state

VARIABLES
  tiff,              \* the file leica_open is called on
  pc,                \* position in leica_open / create_levels_from_collection
  collection,        \* the parsed struct collection
  legacy_quickhash,
  first_main_image,  \* index into collection.images, 0 while NULL
  image_num,
  dimension_num,
  levels,            \* the GPtrArray level_array
  quickhash_dir,
  have_macro_image,
  associated,        \* osr->associated_images
  synth,             \* create_levels_from_collection: "none", "running",
                     \* "ok", or the kind of error it returned
  result,            \* leica_open: "none", "ok", or the kind of its error
  errmsg,            \* the message of the GError, "" when none
  parser_called,     \* parse_xml_description has been invoked
  synth_called,      \* create_levels_from_collection has been invoked
  osr,               \* levels, level_count, data and ops of the reader
  properties,        \* osr->properties
  heap,              \* the allocations and frees since leica_open began
  painters,          \* per thread: its paint_region call and the locals of it
  pool,              \* the TIFF handles taken from data->tc and not put back
  cache              \* the entries of osr->cache that exist

vars ==
  <<tiff, pc, collection, legacy_quickhash, first_main_image, image_num,
    dimension_num, levels, quickhash_dir, have_macro_image, associated,
    synth, result, errmsg, parser_called, synth_called, osr, properties,
    heap, painters, pool, cache>>

\* What leica_open and its callees read and write, without and with the
\* fields of the reader.
readerlessVars ==
  <<tiff, pc, collection, legacy_quickhash, first_main_image, image_num,
    dimension_num, levels, quickhash_dir, have_macro_image, associated,
    synth, result, errmsg, parser_called, synth_called, properties, heap>>

openVars == <<readerlessVars, osr>>

\* What paint_region and read_tile read and write besides the reader.
paintVars == <<painters, pool, cache>>

\* The threads that may call paint_region.
Painters == 1..MaxPainters

\* No cache entry: the value of cache_entry outside of read_tile.
NoEntry == [key |-> <<0, 0, 0>>, gen |-> 0]

\* A thread that has not called paint_region.
IdlePainter ==
  [pc |-> "idle", level |-> 0, n |-> 0, success |-> TRUE, tiff |-> 0,
   dir |-> 0, got |-> FALSE, put |-> 0, tiles |-> 0, tile |-> 0,
   cache_entry |-> NoEntry, tiledata |-> "none", events |-> <<>>,
   after_error |-> FALSE, result |-> "none"]

Init ==
  /\ tiff \in TiffFiles
  /\ pc = "open"
  /\ collection = NoCollection
  /\ legacy_quickhash = FALSE
  /\ first_main_image = 0
  /\ image_num = 0
  /\ dimension_num = 0
  /\ levels = <<>>
  /\ quickhash_dir = 0
  /\ have_macro_image = FALSE
  /\ associated = {}
  /\ synth = "none"
  /\ result = "none"
  /\ errmsg = ""
  /\ parser_called = FALSE
  /\ synth_called = FALSE
  /\ osr = UnsetReader
  /\ properties = {}
  /\ heap = EmptyHeap
  /\ painters = [p \in Painters |-> IdlePainter]
  /\ pool = {}
  /\ cache = {}

\* ---------------------------------------------------------------- actions

\* leica_open up to the call of parse_xml_description: TIFFIsTiled, the
\* ImageDescription tag and the strstr for the namespace.
LeicaOpen ==
  /\ pc = "open"
  /\ IF GateError(tiff) # ""
       THEN /\ result' = "FormatNotSupported"
            /\ errmsg' = GateError(tiff)
            /\ heap' = FailLabel(Allocate(heap, "level_array", 1), levels)
            /\ pc' = "done"
       ELSE /\ pc' = "parse"
            /\ heap' = Allocate(heap, "level_array", 1)
            /\ UNCHANGED <<result, errmsg>>
  /\ UNCHANGED <<tiff, collection, legacy_quickhash, first_main_image,
                 image_num, dimension_num, levels, quickhash_dir,
                 have_macro_image, associated, synth, parser_called,
                 synth_called, osr, properties>>
  /\ UNCHANGED paintVars

\* parse_xml_description and, when it returns NULL, goto FAIL.
ParseXml ==
  /\ pc = "parse"
  /\ parser_called' = TRUE
  /\ LET r == ParseXmlDescription(tiff)
     IN IF r.kind # "ok"
          THEN /\ result' = r.kind
               /\ errmsg' = r.msg
               /\ heap' = FailLabel(ParseXmlHeap(heap, tiff), levels)
               /\ pc' = "done"
               /\ UNCHANGED collection
          ELSE /\ collection' = r.collection
               /\ heap' = ParseXmlHeap(heap, tiff)
               /\ pc' = "create_levels"
               /\ UNCHANGED <<result, errmsg>>
  /\ UNCHANGED <<tiff, legacy_quickhash, first_main_image, image_num,
                 dimension_num, levels, quickhash_dir, have_macro_image,
                 associated, synth, synth_called, osr, properties>>
  /\ UNCHANGED paintVars

\* create_levels_from_collection up to the loop over the main images.
CreateLevelsBegin ==
  /\ pc = "create_levels"
  /\ synth_called' = TRUE
  /\ synth' = "running"
  /\ quickhash_dir' = -1
  /\ legacy_quickhash' = ShouldUseLegacyQuickhash(collection)
  /\ first_main_image' = 0
  /\ image_num' = 1
  /\ pc' = "main_loop"
  /\ UNCHANGED <<tiff, collection, dimension_num, levels, have_macro_image,
                 associated, result, errmsg, parser_called, osr, properties,
                 heap>>
  /\ UNCHANGED paintVars

\* create_levels_from_collection returns false with a BadData error. Where
\* the error is set by a callee in the TIFF collaborator, msg names the call
\* that failed.
SynthFails(msg) ==
  /\ synth' = "BadData"
  /\ errmsg' = msg
  /\ pc' = "synth_return"

\* One iteration of the main-image loop up to its loop over dimensions.
MainImage ==
  /\ pc = "main_loop"
  /\ image_num <= Len(collection.images)
  /\ LET image == collection.images[image_num]
         first == IF first_main_image = 0 THEN image_num ELSE first_main_image
         fimg  == collection.images[first]
     IN IF image.is_macro \/ ~IsBrightfield(image)
          THEN /\ image_num' = image_num + 1
               /\ UNCHANGED <<pc, first_main_image, dimension_num, synth,
                              result, errmsg, properties>>
          ELSE /\ first_main_image' = first
               /\ properties' = IF first_main_image = 0
                                  THEN FirstMainImageProps(properties, image)
                                  ELSE properties
               /\ \E src \in StrcmpOutcomes(image.illumination_source,
                                            fimg.illumination_source),
                     obj \in StrcmpOutcomes(image.objective, fimg.objective) :
                    IF src = "crash" \/ (src = "zero" /\ obj = "crash")
                      THEN /\ synth' = "Crash"
                           /\ result' = "Crash"
                           /\ errmsg' = ""
                           /\ pc' = "done"
                           /\ UNCHANGED <<image_num, dimension_num>>
                    ELSE IF src = "nonzero" \/ obj = "nonzero"
                            \/ Len(image.dimensions) # Len(fimg.dimensions)
                      THEN /\ SynthFails("Slides with dissimilar main images are not supported")
                           /\ UNCHANGED <<image_num, dimension_num, result>>
                    ELSE /\ dimension_num' = 1
                         /\ pc' = "dimension_loop"
                         /\ UNCHANGED <<image_num, synth, result, errmsg>>
  /\ UNCHANGED <<tiff, collection, legacy_quickhash, levels, quickhash_dir,
                 have_macro_image, associated, parser_called, synth_called,
                 osr, heap>>
  /\ UNCHANGED paintVars

\* One iteration of the loop over the dimensions of a main image: the
\* level, the area, the TIFF directory, the compression and the grid.
AddDimension ==
  /\ pc = "dimension_loop"
  /\ dimension_num <= Len(collection.images[image_num].dimensions)
  /\ LET image     == collection.images[image_num]
         dimension == image.dimensions[dimension_num]
         is_first  == image_num = first_main_image
         fdim      == collection.images[first_main_image].dimensions[dimension_num]
         lv        == IF is_first
                        THEN Append(levels, NewLevel(dimension.clicks_per_pixel))
                        ELSE [levels EXCEPT ![dimension_num].clicks_per_pixel =
                                MinClicksPerPixel(@, dimension.clicks_per_pixel)]
         WithArea(a) == [lv EXCEPT ![dimension_num].areas = Append(@, a)]
         inited    == TiffLevelInit(NewArea, dimension.dir)
         placed    == SetAreaOffset(inited, image)
     IN IF ~is_first /\ ~ResolutionSimilar(dimension.clicks_per_pixel,
                                           fdim.clicks_per_pixel)
          THEN /\ levels' = lv
               /\ heap' = DimensionHeap(heap, is_first, FALSE, FALSE)
               /\ SynthFails("Inconsistent main image resolutions")
               /\ UNCHANGED dimension_num
          ELSE \E t \in {"ok", "level_init", "compression", "codec"} :
                 CASE t = "level_init" ->
                        /\ levels' = WithArea(NewArea)
                        /\ heap' = DimensionHeap(heap, is_first, TRUE, FALSE)
                        /\ SynthFails("Cannot initialize TIFF level")
                        /\ UNCHANGED dimension_num
                   [] t = "compression" ->
                        /\ levels' = WithArea(placed)
                        /\ heap' = DimensionHeap(heap, is_first, TRUE, FALSE)
                        /\ SynthFails("Can't read compression scheme")
                        /\ UNCHANGED dimension_num
                   [] t = "codec" ->
                        /\ levels' = WithArea(placed)
                        /\ heap' = DimensionHeap(heap, is_first, TRUE, FALSE)
                        /\ SynthFails("Unsupported TIFF compression")
                        /\ UNCHANGED dimension_num
                   [] OTHER ->
                        /\ levels' = WithArea([placed EXCEPT !.grid = TRUE])
                        /\ heap' = DimensionHeap(heap, is_first, TRUE, TRUE)
                        /\ dimension_num' = dimension_num + 1
                        /\ UNCHANGED <<pc, synth, errmsg>>
  /\ UNCHANGED <<tiff, collection, legacy_quickhash, first_main_image,
                 image_num, quickhash_dir, have_macro_image, associated,
                 result, parser_called, synth_called, osr, properties>>
  /\ UNCHANGED paintVars

\* The end of one main image: "set quickhash directory in legacy mode".
EndMainImage ==
  /\ pc = "dimension_loop"
  /\ dimension_num > Len(collection.images[image_num].dimensions)
  /\ quickhash_dir' = LegacyQuickhashDir(legacy_quickhash,
                                         image_num = first_main_image,
                                         quickhash_dir,
                                         collection.images[image_num])
  /\ image_num' = image_num + 1
  /\ pc' = "main_loop"
  /\ UNCHANGED <<tiff, collection, legacy_quickhash, first_main_image,
                 dimension_num, levels, have_macro_image, associated, synth,
                 result, errmsg, parser_called, synth_called, osr, properties,
                 heap>>
  /\ UNCHANGED paintVars

\* After the main-image loop: "Can't find main image", or the level sizes
\* and the start of the macro loop.
MainLoopEnd ==
  /\ pc = "main_loop"
  /\ image_num > Len(collection.images)
  /\ IF first_main_image = 0
       THEN /\ SynthFails("Can't find main image")
            /\ UNCHANGED <<levels, image_num, have_macro_image>>
       ELSE /\ levels' = SetLevelSizes(levels, collection)
            /\ have_macro_image' = FALSE
            /\ image_num' = 1
            /\ pc' = "macro_loop"
            /\ UNCHANGED <<synth, errmsg>>
  /\ UNCHANGED <<tiff, collection, legacy_quickhash, first_main_image,
                 dimension_num, quickhash_dir, associated, result,
                 parser_called, synth_called, osr, properties, heap>>
  /\ UNCHANGED paintVars

\* One iteration of the macro-image loop.
MacroImage ==
  /\ pc = "macro_loop"
  /\ image_num <= Len(collection.images)
  /\ LET image == collection.images[image_num]
     IN IF ~image.is_macro \/ ~IsBrightfield(image)
          THEN /\ image_num' = image_num + 1
               /\ UNCHANGED <<pc, quickhash_dir, have_macro_image, associated,
                              synth, errmsg>>
        ELSE IF MultipleMacroImages(have_macro_image)
          THEN /\ SynthFails("Found multiple macro images")
               /\ UNCHANGED <<image_num, quickhash_dir, have_macro_image,
                              associated>>
        ELSE \E added \in BOOLEAN :
               IF ~added
                 THEN /\ SynthFails("Cannot add associated image")
                      /\ UNCHANGED <<image_num, quickhash_dir,
                                     have_macro_image, associated>>
                 ELSE /\ associated' = AddAssociatedImage(associated, "macro",
                                         image.dimensions[1].dir)
                      /\ quickhash_dir' = MacroQuickhashDir(legacy_quickhash,
                                            quickhash_dir, image)
                      /\ have_macro_image' = TRUE
                      /\ image_num' = image_num + 1
                      /\ UNCHANGED <<pc, synth, errmsg>>
  /\ UNCHANGED <<tiff, collection, legacy_quickhash, first_main_image,
                 dimension_num, levels, result, parser_called, synth_called,
                 osr, properties, heap>>
  /\ UNCHANGED paintVars

\* After the macro loop: the test of *quickhash_dir == -1 and the return.
QuickhashCheck ==
  /\ pc = "macro_loop"
  /\ image_num > Len(collection.images)
  /\ IF quickhash_dir = -1
       THEN SynthFails("Couldn't locate TIFF directory for quickhash")
       ELSE /\ synth' = "ok"
            /\ pc' = "synth_return"
            /\ UNCHANGED errmsg
  /\ UNCHANGED <<tiff, collection, legacy_quickhash, first_main_image,
                 image_num, dimension_num, levels, quickhash_dir,
                 have_macro_image, associated, result, parser_called,
                 synth_called, osr, properties, heap>>
  /\ UNCHANGED paintVars

\* leica_open after create_levels_from_collection returned false:
\* collection_free, goto FAIL, every level of level_array destroyed.
LeicaOpenFail ==
  /\ pc = "synth_return"
  /\ synth # "ok"
  /\ result' = synth
  /\ heap' = FailLabel(CollectionFree(heap, collection), levels)
  /\ levels' = <<>>
  /\ pc' = "done"
  /\ UNCHANGED <<tiff, collection, legacy_quickhash, first_main_image,
                 image_num, dimension_num, quickhash_dir, have_macro_image,
                 associated, synth, errmsg, parser_called, synth_called, osr,
                 properties>>
  /\ UNCHANGED paintVars

\* leica_open after create_levels_from_collection returned true: the
\* collection freed, the private data allocated, the hash and properties,
\* the property directory with its resolution, and the reader's fields.
LeicaOpenFinish ==
  /\ pc = "synth_return"
  /\ synth = "ok"
  /\ \E t \in {"ok", "hash", "directory"}, has_resolution \in BOOLEAN :
       LET h == Allocate(CollectionFree(heap, collection), "data", 1)
       IN /\ properties' = FinishProps(properties, t, has_resolution)
          /\ CASE t = "hash" ->
                   /\ result' = "BadData"
                   /\ errmsg' = "Cannot initialize properties and hash"
                   /\ heap' = DestroyData(h, levels)
                   /\ levels' = <<>>
                   /\ osr' = StoreReader(osr, t, levels)
              [] t = "directory" ->
                   /\ result' = "BadData"
                   /\ errmsg' = "Can't read directory"
                   /\ heap' = DestroyData(h, levels)
                   /\ levels' = <<>>
                   /\ osr' = StoreReader(osr, t, levels)
              [] OTHER ->
                   /\ result' = "ok"
                   /\ heap' = h
                   /\ osr' = StoreReader(osr, t, levels)
                   /\ UNCHANGED <<levels, errmsg>>
  /\ pc' = "done"
  /\ UNCHANGED <<tiff, collection, legacy_quickhash, first_main_image,
                 image_num, dimension_num, quickhash_dir, have_macro_image,
                 associated, synth, parser_called, synth_called>>
  /\ UNCHANGED paintVars

Next ==
  \/ LeicaOpen
  \/ ParseXml
  \/ CreateLevelsBegin
  \/ MainImage
  \/ AddDimension
  \/ EndMainImage
  \/ MainLoopEnd
  \/ MacroImage
  \/ QuickhashCheck
  \/ LeicaOpenFail
  \/ LeicaOpenFinish

Spec == Init /\ [][Next]_vars

\* ------------------------------------------- the painter (after the open)

\* The manifest of the slide the painters work on: two brightfield main
\* images side by side and a brightfield macro image.
PaintedDocument ==
  CollectionNode(Canvas.sizeX, Canvas.sizeY,
    <<ImageNode(LEICA_VALUE_BRIGHTFIELD, "20", 200, 200, 0, 0,
                Pyramid(MaxDims, 1)),
      ImageNode(LEICA_VALUE_BRIGHTFIELD, "20", 198, 200, 200, 0,
                Pyramid(MaxDims, 11)),
      ImageNode(LEICA_VALUE_BRIGHTFIELD, "20", Canvas.sizeX, Canvas.sizeY,
                0, 0, Pyramid(MaxDims, 21))>>)

PaintedCollection == ParseCollection(PaintedDocument)

\* The levels leica_open stores for that slide: per dimension one level of
\* two areas, one per main image.
PaintedLevels ==
  LET c == PaintedCollection
      AreaOf(i, k) ==
        [SetAreaOffset(TiffLevelInit(NewArea, c.images[i].dimensions[k].dir),
                       c.images[i])
           EXCEPT !.grid = TRUE]
  IN SetLevelSizes(
       [k \in 1..MaxDims |->
          [NewLevel(MinClicksPerPixel(
                      c.images[1].dimensions[k].clicks_per_pixel,
                      c.images[2].dimensions[k].clicks_per_pixel))
             EXCEPT !.areas = <<AreaOf(1, k), AreaOf(2, k)>>]],
       c)

\* The reader and the properties after that open.
PaintedReader == StoreReader(UnsetReader, "ok", PaintedLevels)

PaintedProperties ==
  FinishProps(FirstMainImageProps({}, PaintedCollection.images[1]), "ok", TRUE)

\* The state in which leica_open returned true on that slide.
OpenedState ==
  /\ tiff = TiffFile(TRUE, TRUE, TRUE, TRUE, TRUE, PaintedDocument)
  /\ pc = "done"
  /\ collection = PaintedCollection
  /\ legacy_quickhash = FALSE
  /\ first_main_image = 1
  /\ image_num = 4
  /\ dimension_num = MaxDims + 1
  /\ levels = PaintedLevels
  /\ quickhash_dir = 20 + MaxDims
  /\ have_macro_image = TRUE
  /\ associated = AddAssociatedImage({}, "macro", 21)
  /\ synth = "ok"
  /\ result = "ok"
  /\ errmsg = ""
  /\ parser_called = TRUE
  /\ synth_called = TRUE
  /\ osr = PaintedReader
  /\ properties = PaintedProperties
  /\ heap = [allocated |->
               [k \in HeapKinds |->
                  CASE k = "image" -> 3
                    [] k = "dimension" -> 3 * MaxDims
                    [] k \in {"level", "areas"} -> MaxDims
                    [] k \in {"area", "grid"} -> 2 * MaxDims
                    [] OTHER -> 1],
             freed |->
               [k \in HeapKinds |->
                  CASE k = "image" -> 3
                    [] k = "dimension" -> 3 * MaxDims
                    [] k = "collection" -> 1
                    [] OTHER -> 0],
             null_grid_destroys |-> 0]

\* The identity of a cache entry: its key (level and area for the area
\* identity, and the tile) and a number that tells it from the other
\* entries of that key that still exist.
EntryId(e) == [key |-> e.key, gen |-> e.gen]

\* The number of a new entry under the key.
NewGen(entries, key) ==
  LET used == {e.gen : e \in {x \in entries : x.key = key}}
  IN CHOOSE g \in 1..(Cardinality(used) + 1) : g \notin used

\* The cache frees an entry that is neither retained nor referenced.
CacheCollect(entries) == {e \in entries : e.cached \/ e.refs > 0}

\* _openslide_cache_get: the entries retained under the key.
CacheLookup(entries, key) == {e \in entries : e.cached /\ e.key = key}

\* _openslide_cache_get on a hit: the caller receives a reference.
CacheRef(entries, id) ==
  {IF EntryId(e) = id THEN [e EXCEPT !.refs = @ + 1] ELSE e : e \in entries}

\* _openslide_cache_put: the buffer becomes the entry retained under the
\* key, with a reference for the caller; an entry retained under the same
\* key before is discarded once nothing references it.
CachePut(entries, key) ==
  LET kept == CacheCollect({[e EXCEPT !.cached = e.cached /\ e.key # key] :
                              e \in entries})
  IN kept \cup {[key |-> key, gen |-> NewGen(kept, key), refs |-> 1,
                 cached |-> TRUE]}

\* The entry the cache retains under the key.
CacheRetained(entries, key) ==
  EntryId(CHOOSE e \in entries : e.cached /\ e.key = key)

\* _openslide_cache_entry_unref
CacheEntryUnref(entries, id) ==
  CacheCollect({IF EntryId(e) = id THEN [e EXCEPT !.refs = @ - 1] ELSE e :
                  e \in entries})

\* _openslide_tiffcache_get hands out a handle nobody else holds.
TiffcacheGet(outstanding) ==
  CHOOSE h \in 1..(Cardinality(outstanding) + 1) : h \notin outstanding

\* read_tile after a cache miss, by the results of
\* _openslide_tiff_read_tile and _openslide_tiff_clip_tile: whether it
\* returns true, whether it put the buffer into the cache (and so holds a
\* reference to the new entry), and what became of the buffer.
ReadTilePutBeforeClip(decoded, clipped) ==
  IF ~decoded
    THEN [ok |-> FALSE, inserted |-> FALSE, tiledata |-> "freed"]
  ELSE IF ~clipped
    THEN [ok |-> FALSE, inserted |-> TRUE, tiledata |-> "freed"]
  ELSE [ok |-> TRUE, inserted |-> TRUE, tiledata |-> "cached"]

ReadTileMiss(decoded, clipped) ==
  IF ~decoded
    THEN [ok |-> FALSE, inserted |-> FALSE, tiledata |-> "freed"]
  ELSE IF ~clipped
    THEN [ok |-> FALSE, inserted |-> FALSE, tiledata |-> "freed"]
  ELSE [ok |-> TRUE, inserted |-> TRUE, tiledata |-> "cached"]

\* The loop over the areas is left by break iff success is false.
LoopExitNever(success) == FALSE

LoopExit(success) == ~success

\* After the loop the handle is put back whatever success is.
PutsHandleOnSuccess(success) == success

PutsHandle(success) == TRUE

\* paint_region stores nothing into the reader, whatever success is.
ReaderAfterPaintPoisoned(reader, success) ==
  IF success THEN reader ELSE UnsetReader

ReaderAfterPaint(reader, success) == reader

\* The painter's locals when the body of the loop ends for area n with the
\* given success: out of the loop on break, else on to the next area.
AfterArea(q, success) ==
  IF LoopExit(success)
    THEN [q EXCEPT !.success = success, !.pc = "put"]
    ELSE [q EXCEPT !.success = success, !.n = @ + 1, !.pc = "area"]

PaintInit ==
  /\ OpenedState
  /\ painters = [p \in Painters |-> IdlePainter]
  /\ pool = {}
  /\ cache = {}

\* paint_region up to its loop: the ops table of the reader dispatches the
\* call, and _openslide_tiffcache_get returns a handle or NULL. The threads
\* paint regions of the base level.
PaintRegion(p) ==
  /\ painters[p].pc = "idle"
  /\ osr.ops = "leica_ops"
  /\ \E level \in {1}, got \in BOOLEAN :
       LET q == [painters[p] EXCEPT
                   !.level = level,
                   !.after_error =
                     \E o \in Painters : painters[o].result = "failed"]
       IN IF got
            THEN /\ painters' =
                      [painters EXCEPT
                         ![p] = [q EXCEPT !.tiff = TiffcacheGet(pool),
                                          !.got = TRUE,
                                          !.n = 1,
                                          !.success = TRUE,
                                          !.pc = "area"]]
                 /\ pool' = pool \cup {TiffcacheGet(pool)}
            ELSE /\ painters' =
                      [painters EXCEPT
                         ![p] = [IdlePainter EXCEPT !.result = "failed",
                                                    !.pc = "returned"]]
                 /\ UNCHANGED pool
  /\ UNCHANGED cache
  /\ UNCHANGED openVars

\* The head of one iteration of the loop over l->areas: the loop test,
\* TIFFSetDirectory on the area's directory, and the call of
\* _openslide_grid_paint_region, whose region intersects one tile of the
\* area's grid or none.
SelectArea(p) ==
  /\ painters[p].pc = "area"
  /\ LET q == painters[p]
         l == osr.levels[q.level]
     IN IF q.n > Len(l.areas)
          THEN painters' = [painters EXCEPT ![p].pc = "put"]
          ELSE \E selected \in BOOLEAN, intersects \in BOOLEAN :
                 LET dir   == l.areas[q.n].dir
                     tiles == IF intersects THEN 1 ELSE 0
                 IN IF ~selected
                      THEN painters' =
                             [painters EXCEPT
                                ![p] = AfterArea(
                                         [q EXCEPT !.events =
                                            Append(@, <<"dir", q.n, dir>>)],
                                         FALSE)]
                      ELSE painters' =
                             [painters EXCEPT
                                ![p] = [q EXCEPT
                                          !.dir = dir,
                                          !.events =
                                            @ \o << <<"dir", q.n, dir>>,
                                                    <<"paint", q.n, dir>> >>,
                                          !.tiles = tiles,
                                          !.tile = 1,
                                          !.pc = "grid"]]
  /\ UNCHANGED <<pool, cache>>
  /\ UNCHANGED openVars

\* The grid calls read_tile for the next tile of the region, or returns true
\* when there is none left. read_tile up to the cache lookup: a hit gives
\* the caller a reference to the entry.
GridTile(p) ==
  /\ painters[p].pc = "grid"
  /\ LET q     == painters[p]
         key   == <<q.level, q.n, q.tile>>
         found == CacheLookup(cache, key)
     IN IF q.tile > q.tiles
          THEN /\ painters' = [painters EXCEPT ![p] = AfterArea(q, TRUE)]
               /\ UNCHANGED cache
        ELSE IF found # {}
          THEN \E e \in found :
                 /\ cache' = CacheRef(cache, EntryId(e))
                 /\ painters' =
                      [painters EXCEPT
                         ![p] = [q EXCEPT !.cache_entry = EntryId(e),
                                          !.tiledata = "hit",
                                          !.pc = "draw"]]
        ELSE /\ painters' =
                  [painters EXCEPT
                     ![p] = [q EXCEPT !.tiledata = "allocated",
                                      !.pc = "decode"]]
             /\ UNCHANGED cache
  /\ UNCHANGED pool
  /\ UNCHANGED openVars

\* read_tile after a miss: the tile is decoded and clipped into the buffer
\* and the buffer put into the cache, or the buffer is freed and read_tile
\* returns false, which the grid hands on to paint_region.
DecodeTile(p) ==
  /\ painters[p].pc = "decode"
  /\ \E decoded \in BOOLEAN, clipped \in BOOLEAN :
       LET q   == painters[p]
           key == <<q.level, q.n, q.tile>>
           o   == ReadTileMiss(decoded, clipped)
           put == CachePut(cache, key)
           r   == [q EXCEPT
                     !.tiledata = o.tiledata,
                     !.cache_entry = IF o.inserted
                                       THEN CacheRetained(put, key)
                                       ELSE NoEntry]
       IN /\ cache' = IF o.inserted THEN put ELSE cache
          /\ painters' =
               [painters EXCEPT
                  ![p] = IF o.ok THEN [r EXCEPT !.pc = "draw"]
                                 ELSE AfterArea(r, FALSE)]
  /\ UNCHANGED pool
  /\ UNCHANGED openVars

\* read_tile from "draw it" on: the surface is painted and the reference
\* to the cache entry released.
DrawTile(p) ==
  /\ painters[p].pc = "draw"
  /\ cache' = CacheEntryUnref(cache, painters[p].cache_entry)
  /\ painters' =
       [painters EXCEPT
          ![p] = [@ EXCEPT !.cache_entry = NoEntry,
                           !.tiledata = "none",
                           !.tile = @ + 1,
                           !.pc = "grid"]]
  /\ UNCHANGED pool
  /\ UNCHANGED openVars

\* paint_region after its loop: _openslide_tiffcache_put and the return of
\* success. The locals of the call end with it; what is kept of them is
\* whether it got a handle, how often it put it back, and a reference to a
\* cache entry it would still hold.
PutHandle(p) ==
  /\ painters[p].pc = "put"
  /\ LET q == painters[p]
     IN /\ pool' = IF PutsHandle(q.success) THEN pool \ {q.tiff} ELSE pool
        /\ painters' =
             [painters EXCEPT
                ![p] = [IdlePainter EXCEPT
                          !.got = q.got,
                          !.put = IF PutsHandle(q.success)
                                    THEN q.put + 1 ELSE q.put,
                          !.cache_entry = q.cache_entry,
                          !.result = IF q.success THEN "ok" ELSE "failed",
                          !.pc = "returned"]]
        /\ osr' = ReaderAfterPaint(osr, q.success)
  /\ UNCHANGED cache
  /\ UNCHANGED readerlessVars

PaintNext ==
  \/ \E p \in Painters : PaintRegion(p)
  \/ \E p \in Painters : SelectArea(p)
  \/ \E p \in Painters : GridTile(p)
  \/ \E p \in Painters : DecodeTile(p)
  \/ \E p \in Painters : DrawTile(p)
  \/ \E p \in Painters : PutHandle(p)

PaintSpec == PaintInit /\ [][PaintNext]_vars

\* ------------------------------------------------------------ properties

\* Indices of the images of the parsed collection, by kind.
ImageIndices == 1..Len(collection.images)
MacroIndices == {i \in ImageIndices : collection.images[i].is_macro}
NonMacroIndices == ImageIndices \ MacroIndices
BrightfieldIndices ==
  {i \in ImageIndices :
     collection.images[i].illumination_source = LEICA_VALUE_BRIGHTFIELD}
RetainedIndices == NonMacroIndices \cap BrightfieldIndices
BrightfieldMacroIndices == MacroIndices \cap BrightfieldIndices
FirstRetained == CHOOSE i \in RetainedIndices : \A j \in RetainedIndices : i <= j

\* create_levels_from_collection has just returned / has returned true.
SynthesisReturned == pc = "synth_return"
SynthesisSucceeded == pc = "synth_return" /\ synth = "ok"

\* Errors raised by the TIFF collaborator rather than by the manifest.
TiffErrors ==
  {"Cannot initialize TIFF level", "Can't read compression scheme",
   "Unsupported TIFF compression", "Cannot add associated image",
   "Cannot initialize properties and hash", "Can't read directory"}

\* The narrowest / widest width among the dimensions of an image.
IsNarrowest(image, d) == \A k \in 1..Len(image.dimensions) : d.width <= image.dimensions[k].width
IsWidest(image, d) == \A k \in 1..Len(image.dimensions) : d.width >= image.dimensions[k].width
LastDimension(image) == image.dimensions[Len(image.dimensions)]

\* C1 (as stated): opening the slide of scenario 1 (collection 100000x80000,
\* one brightfield image covering it with dimensions dir 1 1000x800 and
\* dir 2 500x400) succeeds, unless the TIFF collaborator fails, with levels
\* 1000x800 and 500x400, clicks_per_pixel 100 and 200, legacy_quickhash true
\* and quickhash_dir 2.
C1_Scenario1Opens ==
  (tiff.doc = Scenario1Document /\ pc = "done" /\ errmsg \notin TiffErrors) =>
    /\ result = "ok"
    /\ Len(osr.levels) = 2
    /\ osr.levels[1].base_w = 1000 /\ osr.levels[1].base_h = 800
    /\ osr.levels[2].base_w = 500 /\ osr.levels[2].base_h = 400
    /\ CppEqual(osr.levels[1].clicks_per_pixel, ClicksPerPixel(100, 1))
    /\ CppEqual(osr.levels[2].clicks_per_pixel, ClicksPerPixel(200, 1))
    /\ legacy_quickhash
    /\ quickhash_dir = 2

\* C1 (amended): in scenario 1 the only image is a macro image, so
\* legacy_quickhash is false, no level and no associated image is made and
\* the open fails with BadData "Can't find main image", the reader unset.
C1_Scenario1Rejected ==
  tiff.doc = Scenario1Document =>
    /\ synth_called => (MacroIndices = {1} /\ ~legacy_quickhash)
    /\ levels = <<>>
    /\ pc = "done" =>
         /\ synth_called
         /\ result = "BadData"
         /\ errmsg = "Can't find main image"
         /\ associated = {}
         /\ osr = UnsetReader

C1_Witness == tiff.doc = Scenario1Document /\ pc = "done" /\ synth_called

\* C2: should_use_legacy_quickhash is true iff the collection has exactly
\* one non-macro image, that image is brightfield, and there is at most one
\* macro image of any illumination.
C2_LegacyQuickhashIff ==
  synth_called =>
    (legacy_quickhash <=>
       /\ Cardinality(NonMacroIndices) = 1
       /\ NonMacroIndices \subseteq BrightfieldIndices
       /\ Cardinality(MacroIndices) <= 1)

C2_Witness ==
  /\ synth_called
  /\ legacy_quickhash
  /\ Cardinality(MacroIndices) = 1
  /\ Cardinality(NonMacroIndices) = 1

\* C3: when create_levels_from_collection succeeds, quickhash_dir is the
\* directory of the last, narrowest dimension of the first main image in
\* legacy mode, and otherwise that of the narrowest dimension of the one
\* brightfield macro image.
C3_QuickhashDirSource ==
  SynthesisSucceeded =>
    IF legacy_quickhash
      THEN LET image == collection.images[FirstRetained]
           IN /\ quickhash_dir = LastDimension(image).dir
              /\ IsNarrowest(image, LastDimension(image))
      ELSE /\ Cardinality(BrightfieldMacroIndices) = 1
           /\ \A m \in BrightfieldMacroIndices :
                /\ quickhash_dir = LastDimension(collection.images[m]).dir
                /\ IsNarrowest(collection.images[m],
                               LastDimension(collection.images[m]))

C3_Witness ==
  /\ SynthesisSucceeded
  /\ legacy_quickhash
  /\ \E m \in BrightfieldMacroIndices :
       LastDimension(collection.images[m]).dir # quickhash_dir

\* C4: when create_levels_from_collection succeeds quickhash_dir >= 0, and a
\* call that leaves quickhash_dir unset returns BadData.
C4_QuickhashDirNonNegative ==
  /\ SynthesisSucceeded => quickhash_dir >= 0
  /\ (SynthesisReturned /\ quickhash_dir = -1) => synth = "BadData"

\* C5: after a successful synthesis every area's click offsets lie inside
\* the collection: 0 <= offset_x < clicks_across, 0 <= offset_y < clicks_down.
C5_AreaOffsetsInCanvas ==
  SynthesisSucceeded =>
    \A k \in 1..Len(levels) : \A a \in 1..Len(levels[k].areas) :
      /\ 0 <= levels[k].areas[a].clicks_offset_x
      /\ levels[k].areas[a].clicks_offset_x < collection.clicks_across
      /\ 0 <= levels[k].areas[a].clicks_offset_y
      /\ levels[k].areas[a].clicks_offset_y < collection.clicks_down

\* C6: after a successful synthesis the levels are sorted by descending
\* width.
C6_LevelsDescending ==
  SynthesisSucceeded =>
    \A k \in 1..(Len(levels) - 1) : levels[k].base_w >= levels[k + 1].base_w

C6_Witness ==
  /\ SynthesisSucceeded
  /\ Cardinality(RetainedIndices) >= 2
  /\ Len(levels) >= 2
  /\ levels[1].base_w > levels[2].base_w

\* C7: after a successful synthesis the clicks_per_pixel of level k is the
\* minimum of the clicks_per_pixel of dimension k over the retained images,
\* and base.w, base.h are the ceilings of the collection's clicks divided by
\* that minimum: the least w with w * clicks_per_pixel >= clicks_across.
C7_MinimumClicksPerPixel ==
  SynthesisSucceeded =>
    \A k \in 1..Len(levels) :
      LET cpp == levels[k].clicks_per_pixel
          IsCeiling(w, clicks) ==
            /\ w * cpp.n >= clicks * cpp.d
            /\ (w - 1) * cpp.n < clicks * cpp.d
      IN /\ \E i \in RetainedIndices :
              CppEqual(cpp, collection.images[i].dimensions[k].clicks_per_pixel)
         /\ \A i \in RetainedIndices :
              ~CppLess(collection.images[i].dimensions[k].clicks_per_pixel, cpp)
         /\ IsCeiling(levels[k].base_w, collection.clicks_across)
         /\ IsCeiling(levels[k].base_h, collection.clicks_down)

C7_Witness ==
  /\ SynthesisSucceeded
  /\ \E k \in 1..Len(levels) :
       CppLess(levels[k].clicks_per_pixel,
               collection.images[FirstRetained].dimensions[k].clicks_per_pixel)

\* C8: after a successful synthesis any two retained main images agree in
\* illumination source, objective and number of dimensions, and a
\* collection with a brightfield main image that differs from the first
\* one in objective or number of dimensions makes
\* create_levels_from_collection fail with BadData.
C8_DissimilarRejected ==
  /\ SynthesisSucceeded =>
       \A a \in RetainedIndices : \A b \in RetainedIndices :
         /\ collection.images[a].illumination_source =
              collection.images[b].illumination_source
         /\ collection.images[a].objective = collection.images[b].objective
         /\ Len(collection.images[a].dimensions) =
              Len(collection.images[b].dimensions)
  /\ (/\ pc \in {"synth_return", "done"}
      /\ synth_called
      /\ \E i \in RetainedIndices :
           \/ collection.images[i].objective #
                collection.images[FirstRetained].objective
           \/ Len(collection.images[i].dimensions) #
                Len(collection.images[FirstRetained].dimensions))
     => synth = "BadData"

\* C9 (as stated): a collection with more than one macro image is never
\* opened successfully and fails with BadData; with exactly one brightfield
\* macro there is exactly one associated image, "macro", from the macro's
\* largest dimension; non-brightfield macros give no associated image.
C9_AtMostOneMacro ==
  /\ (SynthesisReturned /\ Cardinality(MacroIndices) > 1) => synth = "BadData"
  /\ (synth_called /\ Cardinality(MacroIndices) > 1) => result # "ok"
  /\ (SynthesisSucceeded /\ Cardinality(BrightfieldMacroIndices) = 1) =>
       \E m \in BrightfieldMacroIndices :
         /\ associated =
              {[name |-> "macro", dir |-> collection.images[m].dimensions[1].dir]}
         /\ IsWidest(collection.images[m], collection.images[m].dimensions[1])
  /\ (SynthesisSucceeded /\ BrightfieldMacroIndices = {}) => associated = {}

\* C9 (amended): a collection with more than one brightfield macro image is
\* never opened successfully, and whenever its synthesis returns it returns
\* BadData; macro images of another illumination are skipped and do not
\* count; with exactly one brightfield macro a successful synthesis leaves
\* exactly one associated image, "macro", from the macro's largest
\* dimension, and with none it leaves no associated image.
C9_AtMostOneBrightfieldMacro ==
  /\ (SynthesisReturned /\ Cardinality(BrightfieldMacroIndices) > 1) =>
       synth = "BadData"
  /\ (synth_called /\ Cardinality(BrightfieldMacroIndices) > 1) => result # "ok"
  /\ (SynthesisSucceeded /\ Cardinality(BrightfieldMacroIndices) = 1) =>
       \E m \in BrightfieldMacroIndices :
         /\ associated =
              {[name |-> "macro", dir |-> collection.images[m].dimensions[1].dir]}
         /\ IsWidest(collection.images[m], collection.images[m].dimensions[1])
  /\ (SynthesisSucceeded /\ BrightfieldMacroIndices = {}) => associated = {}

C9_Witness ==
  /\ result = "ok"
  /\ Cardinality(MacroIndices) = 2
  /\ Cardinality(BrightfieldMacroIndices) = 1
  /\ Cardinality(associated) = 1

\* C10: leica_open fails with FormatNotSupported, the parser and the
\* synthesizer never invoked, when the TIFF is not tiled, has no
\* ImageDescription or its text lacks the Leica namespace URI; a document
\* whose text holds the URI but whose default namespace is another one is
\* rejected with FormatNotSupported as well, the synthesizer never invoked.
C10_NotLeicaRejected ==
  pc = "done" =>
    /\ (~tiff.tiled \/ ~tiff.hasDesc \/ ~tiff.containsNS) =>
         /\ result = "FormatNotSupported"
         /\ ~parser_called
         /\ ~synth_called
    /\ (tiff.tiled /\ tiff.hasDesc /\ tiff.containsNS /\ ~tiff.defaultNS) =>
         /\ result = "FormatNotSupported"
         /\ ~synth_called

C10_Witness ==
  /\ pc = "done"
  /\ tiff.tiled /\ tiff.hasDesc
  /\ tiff.containsNS /\ tiff.wellFormed /\ ~tiff.defaultNS
  /\ parser_called

\* C11: open is all-or-nothing for the reader. As long as leica_open has not
\* returned success (it is still running, or it returned a failure of
\* recognition, of the parse, of the synthesis, of the property and hash
\* seeding or of selecting the property directory), levels, level_count,
\* data and ops of the reader are as they were before the call; when it
\* returned success the four are set together, to the synthesized levels.
C11_OpenAllOrNothing ==
  /\ result # "ok" => osr = UnsetReader
  /\ result = "ok" =>
       /\ osr.levels = levels /\ osr.levels # <<>>
       /\ osr.level_count = Len(levels)
       /\ osr.data
       /\ osr.ops = "leica_ops"

\* leica_open returned a failure after the synthesis had succeeded, with
\* levels built that the reader never received.
C11_Witness ==
  /\ pc = "done"
  /\ synth = "ok"
  /\ result = "BadData"
  /\ errmsg = "Can't read directory"
  /\ osr = UnsetReader

\* The position in every level's area list of the area contributed by the
\* retained image i: the number of retained images up to i.
AreaIndexOf(i) == Cardinality({r \in RetainedIndices : r <= i})

\* C18: after a successful synthesis there is one Level per dimension of
\* the first retained (non-macro, brightfield) image, and level k has one
\* Area per retained image, in image order: the area of image i at level k
\* has a grid, carries the click offsets of image i and the directory of
\* the k-th dimension of image i. Macro images and images that are not
\* brightfield contribute no area.
C18_LevelAreaStructure ==
  SynthesisSucceeded =>
    /\ Len(levels) = Len(collection.images[FirstRetained].dimensions)
    /\ \A k \in 1..Len(levels) :
         /\ Len(levels[k].areas) = Cardinality(RetainedIndices)
         /\ \A i \in RetainedIndices :
              LET area  == levels[k].areas[AreaIndexOf(i)]
                  image == collection.images[i]
              IN /\ area.grid
                 /\ area.dir = image.dimensions[k].dir
                 /\ area.clicks_offset_x = image.clicks_offset_x
                 /\ area.clicks_offset_y = image.clicks_offset_y

\* A successful synthesis of several levels from two retained images at
\* different offsets, with a macro image and a non-brightfield image that
\* contribute nothing.
C18_Witness ==
  /\ SynthesisSucceeded
  /\ Len(levels) >= 2
  /\ Cardinality(RetainedIndices) = 2
  /\ \E i \in RetainedIndices :
       collection.images[i].clicks_offset_x # collection.images[i].clicks_offset_y
  /\ Len(levels[2].areas) = 2
  /\ levels[2].areas[1].clicks_offset_x # levels[2].areas[2].clicks_offset_x
  /\ Cardinality(ImageIndices) > Cardinality(RetainedIndices)

\* leica_open has returned a failure (it has not crashed).
OpenFailed == pc = "done" /\ result \in {"FormatNotSupported", "BadData"}

\* parse_xml_description has returned a failure.
ParseFailed == OpenFailed /\ parser_called /\ ~synth_called

\* Every object of the kind that was allocated has been freed, once.
AllFreed(kind) == heap.freed[kind] = heap.allocated[kind]

\* C15 (as stated): when leica_open returns a failure, every Level, every
\* per-level areas array, every Area, every created Grid and the Collection
\* allocated during the call has been freed exactly once: per kind, as many
\* frees as allocations (a leak leaves fewer; a double free, or the
\* destruction of a grid that was never created, leaves more).
C15_FailureFreesEverything ==
  OpenFailed =>
    \A kind \in {"level", "areas", "area", "grid", "collection"} :
      AllFreed(kind)

\* C16 (as stated): when parse_xml_description fails it returns no
\* Collection, and every Collection, Image and Dimension it allocated has
\* been released, the Image or Dimension under construction included.
C16_ParseFailureFreesEverything ==
  ParseFailed =>
    /\ collection = NoCollection
    /\ \A kind \in {"collection", "image", "dimension"} : AllFreed(kind)

\* The paint_region call of thread p is running / has returned.
InCall(p) == painters[p].pc \notin {"idle", "returned"}
Returned(p) == painters[p].pc = "returned"
AllReturned == \A p \in Painters : Returned(p)

\* The areas of the level thread p paints.
AreasOf(p) == osr.levels[painters[p].level].areas

\* C12: a paint_region call that got a TIFF handle holds it, and only it,
\* until it puts it back exactly once before it returns, whether it
\* succeeded or failed at TIFFSetDirectory or inside the grid; a call
\* whose acquisition failed puts nothing back. The handles outstanding are
\* at any time exactly those of the running calls, so none is outstanding
\* once every call has returned.
C12_HandleReturnedOnce ==
  /\ \A p \in Painters :
       /\ Returned(p) =>
            painters[p].put = IF painters[p].got THEN 1 ELSE 0
       /\ InCall(p) =>
            painters[p].got /\ painters[p].put = 0 /\ painters[p].tiff \in pool
  /\ \A p, q \in Painters :
       InCall(p) /\ InCall(q) /\ p # q => painters[p].tiff # painters[q].tiff
  /\ pool = {painters[p].tiff : p \in {q \in Painters : InCall(q)}}
  /\ AllReturned => pool = {}

\* Every call has returned: one that had a handle and failed, one whose
\* acquisition failed.
C12_Witness ==
  /\ AllReturned
  /\ \E p \in Painters :
       painters[p].got /\ painters[p].result = "failed" /\ painters[p].put = 1
  /\ \E p \in Painters : ~painters[p].got /\ painters[p].result = "failed"
  /\ pool = {}

\* The references of the cache entries are those of the read_tile calls
\* that are drawing, one each.
ReferencesAreDrawers ==
  /\ \A e \in cache :
       e.refs = Cardinality({p \in Painters :
                               painters[p].cache_entry = EntryId(e)})
  /\ \A p \in Painters :
       /\ painters[p].cache_entry # NoEntry <=> painters[p].pc = "draw"
       /\ painters[p].pc = "draw" =>
            \E e \in cache : EntryId(e) = painters[p].cache_entry
       /\ painters[p].tiledata = "freed" =>
            ~painters[p].success /\ painters[p].cache_entry = NoEntry

\* A read_tile call that ends in failure leaves the cache as it was.
FailedReadInsertsNothing ==
  \A p \in Painters :
    (painters[p].pc = "decode" /\ painters'[p].pc \notin {"decode", "draw"})
      => cache' = cache

\* C13: under every interleaving of read_tile calls, several of them
\* missing on the same key and inserting their own buffers included, a call
\* holds exactly one reference to a cache entry while it draws, and that
\* entry exists; it holds none before and none after; a call that fails
\* in the decode or the clip has freed its buffer, inserted nothing and
\* holds no reference; once every call has returned no entry is referenced.
C13_CacheReferences ==
  /\ [](ReferencesAreDrawers /\ (AllReturned => \A e \in cache : e.refs = 0))
  /\ [][FailedReadInsertsNothing]_vars

\* Two calls missed on the same key and each draws from the entry it
\* inserted itself.
C13_Witness ==
  \E p, q \in Painters :
    /\ painters[p].pc = "draw" /\ painters[q].pc = "draw"
    /\ painters[p].tiledata = "cached" /\ painters[q].tiledata = "cached"
    /\ painters[p].cache_entry.key = painters[q].cache_entry.key
    /\ painters[p].cache_entry # painters[q].cache_entry

\* C14: paint_region and read_tile, successful or failed, leave every
\* Level (sizes, clicks_per_pixel, area list), every Area (directory, grid,
\* click offsets) and the property bag of the opened reader as the open
\* left them.
C14_PaintersLeaveReader ==
  /\ osr = PaintedReader
  /\ levels = PaintedLevels
  /\ properties = PaintedProperties

\* A call has failed, and a call begun after that has painted every area
\* and is about to return success.
C14_Witness ==
  \E p, q \in Painters :
    /\ painters[p].result = "failed"
    /\ painters[q].after_error
    /\ painters[q].pc = "put"
    /\ painters[q].success
    /\ Len(painters[q].events) = 2 * Len(AreasOf(q))

\* What paint_region has done so far: for area 1, 2, ... in this order the
\* directory of the area selected and then its grid painted.
EventsInAreaOrder(p) ==
  \A j \in 1..Len(painters[p].events) :
    LET n == (j + 1) \div 2
    IN /\ n <= Len(AreasOf(p))
       /\ painters[p].events[j] =
            <<IF j % 2 = 1 THEN "dir" ELSE "paint", n, AreasOf(p)[n].dir>>

\* A call in which a directory selection or a grid painting has failed
\* selects and paints nothing more: its next step returns the failure.
StopsAtFirstFailure ==
  \A p \in Painters :
    (InCall(p) /\ ~painters[p].success) =>
      \/ painters'[p] = painters[p]
      \/ painters'[p].pc = "returned" /\ painters'[p].result = "failed"

\* C17: within one paint_region call the areas are processed in their
\* order in level.areas, the directory of an area selected before its grid
\* is painted; at the first area whose selection or painting fails the
\* call stops and returns that failure, and a call that returns success
\* has processed every area.
C17_AreasInOrder ==
  /\ [](\A p \in Painters :
          InCall(p) =>
            /\ EventsInAreaOrder(p)
            /\ (painters[p].pc = "put" /\ painters[p].success) =>
                 Len(painters[p].events) = 2 * Len(AreasOf(p)))
  /\ [][StopsAtFirstFailure]_vars

\* The grid of the first of two areas failed to paint: the second area
\* was neither selected nor painted and the call is about to return.
C17_Witness ==
  \E p \in Painters :
    /\ painters[p].pc = "put"
    /\ ~painters[p].success
    /\ Len(AreasOf(p)) = 2
    /\ painters[p].events =
         << <<"dir", 1, AreasOf(p)[1].dir>>, <<"paint", 1, AreasOf(p)[1].dir>> >>

====
